---- MODULE Spec2Model ----
(***************************************************************************)
(* Composite-score merge and Sharpe-ratio backtesting engine               *)
(* (Code/Main.py, Code/Price_Data_Analysis.py, Code/Backtesting.py).       *)
(*                                                                         *)
(* A DataFrame is a record [columns, rows]: the set of its column names    *)
(* and the sequence of its rows, each row a function from the column names *)
(* to values.  A float cell is NaN or an exact rational.                   *)
(***************************************************************************)
EXTENDS Integers, Sequences, FiniteSets, TLC

VARIABLES
    pc,                   \* position of the script that is running
    price_df,             \* Main.py: processed_price
    inventory_df,         \* Main.py: processed_inventory
    cot_df,               \* Main.py: processed_cot
    merged,               \* Main.py: merged
    merged_score_check,   \* Main.py: merged_score_check
    price,                \* Price_Data_Analysis.py: price
    processed_price,      \* Price_Data_Analysis.py: processed_price
    returns,                  \* compute_sharpe_ratio: returns
    investment_period_weeks,  \* compute_sharpe_ratio: investment_period_weeks
    annual_risk_free_rate,    \* compute_sharpe_ratio: annual_risk_free_rate
    sharpe_ratio,             \* compute_sharpe_ratio: the value returned
    merged_df,            \* backtest_scores: merged_df
    scores,               \* backtest_scores: scores
    investment_periods,   \* backtest_scores: investment_periods
    backtest_years,       \* backtest_scores: backtest_years
    score_i,              \* backtest_scores: position of "for score in scores"
    period_i,             \* backtest_scores: position of "for period in investment_periods"
    score_df,             \* backtest_scores: score_df
    summary_data,         \* backtest_scores: summary_data
    files,                \* the CSV files written, in the order of writing
    calls,                \* the calls of compute_sharpe_ratio, in order
    summary_pivot         \* backtest_scores: summary_pivot

mainVars == <<price_df, inventory_df, cot_df, merged, merged_score_check>>
priceVars == <<price, processed_price>>
sharpeVars == <<returns, investment_period_weeks, annual_risk_free_rate, sharpe_ratio>>
configVars == <<merged_df, scores, investment_periods, backtest_years>>
backtestVars == <<configVars, score_i, period_i, score_df, summary_data, files, calls,
                  summary_pivot>>
vars == <<pc, mainVars, priceVars, sharpeVars, backtestVars>>

----------------------------------------------------------------------------
(* Bounds of the model *)

\* longest feed (rows) enumerated for the merge
MaxRows == 2
\* number of weeks of the raw price file, which holds at most as many rows
MaxWeeks == 3
\* longest return series handed to compute_sharpe_ratio
MaxReturns == 3
\* longest merged series handed to backtest_scores
MaxSeries == 3
\* longest series handed to extract_rows_by_score alone
MaxExtractRows == 2
\* significant bits of the binary floating point of the model (a double has 53)
Precision == 5

----------------------------------------------------------------------------
(* Float cells: NaN, or the rational n/d in lowest terms with d > 0 *)

Abs(x) == IF x < 0 THEN -x ELSE x

RECURSIVE GCD(_, _)
GCD(a, b) == IF b = 0 THEN a ELSE GCD(b, a % b)

NaN == [nan |-> TRUE, n |-> 0, d |-> 1]

Rat(n, d) ==
    LET g == GCD(Abs(n), Abs(d))
        s == IF d < 0 THEN -1 ELSE 1
    IN  [nan |-> FALSE, n |-> s * (n \div g), d |-> s * (d \div g)]

Num(k) == Rat(k, 1)

Sgn(x) == IF x.n > 0 THEN 1 ELSE IF x.n < 0 THEN -1 ELSE 0

LCM(a, b) == (a \div GCD(a, b)) * b

RAdd(x, y) ==
    IF x.nan \/ y.nan THEN NaN
    ELSE LET l == LCM(x.d, y.d)
         IN  Rat(x.n * (l \div x.d) + y.n * (l \div y.d), l)
RNeg(x) == IF x.nan THEN NaN ELSE [nan |-> FALSE, n |-> -x.n, d |-> x.d]
RSub(x, y) == RAdd(x, RNeg(y))
RMul(x, y) ==
    IF x.nan \/ y.nan THEN NaN
    ELSE LET g1 == GCD(Abs(x.n), y.d)
             g2 == GCD(Abs(y.n), x.d)
         IN  Rat((x.n \div g1) * (y.n \div g2), (x.d \div g2) * (y.d \div g1))
\* x / y; a division by zero gives NaN (0/0) or an infinity, written s/0
RDiv(x, y) ==
    IF x.nan \/ y.nan THEN NaN
    ELSE IF y.n = 0
         THEN IF x.n = 0 THEN NaN ELSE [nan |-> FALSE, n |-> Sgn(x), d |-> 0]
         ELSE RMul(x, Rat(y.d, y.n))
\* comparisons with NaN are False
RLe(x, y) ==
    /\ ~x.nan /\ ~y.nan
    /\ LET l == LCM(x.d, y.d) IN x.n * (l \div x.d) <= y.n * (l \div y.d)
RLt(x, y) == RLe(x, y) /\ x # y
RAbs(x) == IF x.nan THEN NaN ELSE [nan |-> FALSE, n |-> Abs(x.n), d |-> x.d]

\* Series.sum(): NaN entries are skipped
RECURSIVE SumCells(_)
SumCells(cells) ==
    IF Len(cells) = 0 THEN Num(0)
    ELSE LET rest == SumCells(Tail(cells))
         IN  IF Head(cells).nan THEN rest ELSE RAdd(Head(cells), rest)

\* Series.mean(): NaN entries are skipped, NaN when nothing is left
MeanCells(cells) ==
    LET v == SelectSeq(cells, LAMBDA c : ~c.nan)
    IN  IF Len(v) = 0 THEN NaN ELSE RDiv(SumCells(v), Num(Len(v)))

RECURSIVE Flatten(_)
Flatten(ss) == IF Len(ss) = 0 THEN <<>> ELSE Head(ss) \o Flatten(Tail(ss))

SeqsUpTo(S, n) == UNION {[1..k -> S] : k \in 0..n}

----------------------------------------------------------------------------
(* DataFrames *)

NoFrame == [columns |-> {}, rows |-> <<>>]

KeyCols == {"Year", "Week_Number"}
Key(row) == <<row["Year"], row["Week_Number"]>>
\* (Year, Week_Number) in ascending order
KeyBefore(a, b) == a[1] < b[1] \/ (a[1] = b[1] /\ a[2] < b[2])

RECURSIVE SortKeys(_)
SortKeys(S) ==
    IF S = {} THEN <<>>
    ELSE LET m == CHOOSE k \in S : \A o \in S : o = k \/ KeyBefore(k, o)
         IN  <<m>> \o SortKeys(S \ {m})

KeysOf(df) == {Key(df.rows[i]) : i \in DOMAIN df.rows}

\* df.duplicated(subset=['Year', 'Week_Number']).any()
Duplicated(df) ==
    \E i, j \in DOMAIN df.rows : i < j /\ Key(df.rows[i]) = Key(df.rows[j])

\* df.groupby(['Year', 'Week_Number'], as_index=False).mean(): one row per
\* key, keys ascending, every other column the mean of the group
GroupByMean(df) ==
    LET keys == SortKeys(KeysOf(df))
        grp(k) == SelectSeq(df.rows, LAMBDA r : Key(r) = k)
        row(k) == [c \in df.columns |->
                     IF c = "Year" THEN k[1]
                     ELSE IF c = "Week_Number" THEN k[2]
                     ELSE MeanCells([j \in 1..Len(grp(k)) |-> grp(k)[j][c]])]
    IN  [columns |-> df.columns, rows |-> [i \in 1..Len(keys) |-> row(keys[i])]]

\* the mutant: duplicates are left in the feed
EnsureUniqueSkipped(df) == df

\* Steps 1 and 2 of merge_dataframes
EnsureUnique(df) == IF Duplicated(df) THEN GroupByMean(df) ELSE df

\* left.merge(right, on=['Year', 'Week_Number'], how='left'): the rows of left
\* in order, each once per matching row of right, and once with NaN in the
\* columns of right when nothing matches
LeftMerge(left, right) ==
    LET shared == (left.columns \cap right.columns) \ KeyCols
        newcols == right.columns \ (KeyCols \cup shared)
        \* a column of both frames is kept twice, as c_x and c_y
        lrow(l) == [c \in left.columns \ shared |-> l[c]]
                   @@ [cx \in {c \o "_x" : c \in shared} |->
                          l[CHOOSE c \in shared : c \o "_x" = cx]]
        rrow(r) == [c \in newcols |-> r[c]]
                   @@ [cy \in {c \o "_y" : c \in shared} |->
                          r[CHOOSE c \in shared : c \o "_y" = cy]]
        nanrow == [c \in newcols \cup {c \o "_y" : c \in shared} |-> NaN]
        joined(l) ==
            LET m == SelectSeq(right.rows, LAMBDA r : Key(r) = Key(l))
            IN  IF Len(m) = 0 THEN << lrow(l) @@ nanrow >>
                ELSE [j \in 1..Len(m) |-> lrow(l) @@ rrow(m[j])]
    IN  [columns |-> (left.columns \ shared) \cup newcols
                     \cup {c \o "_x" : c \in shared} \cup {c \o "_y" : c \in shared},
         rows    |-> Flatten([i \in 1..Len(left.rows) |-> joined(left.rows[i])])]

score_columns ==
    <<"Price Score", "Bullish_Bearish_Score", "Delta_Score",
      "Absolute Storage Score", "Delta Inventory Score">>

ScoreColumnSet == {score_columns[i] : i \in DOMAIN score_columns}

\* the mutant: missing scores are left NaN
FillNaSkipped(row) == row

\* merged_df[score_columns_to_sum].fillna(0), on one row
FillNa(row) ==
    [c \in DOMAIN row |->
        IF c \in ScoreColumnSet /\ row[c].nan THEN Num(0) ELSE row[c]]

\* the mutant: 'Price Score' is left out of the sum
SumScoresNoPrice(row) ==
    SumCells([i \in 1..(Len(score_columns) - 1) |-> row[score_columns[i + 1]]])

\* merged_df[score_columns_to_sum].sum(axis=1), on one row
SumScores(row) ==
    SumCells([i \in 1..Len(score_columns) |-> row[score_columns[i]]])

\* merged_df['Total_Score'] = ...: the column is added, or overwritten
SetTotalScore(row) ==
    [c \in DOMAIN row \cup {"Total_Score"} |->
        IF c = "Total_Score" THEN SumScores(row) ELSE row[c]]

Ok(v) == [raised |-> "", value |-> v]
Raise(e) == [raised |-> e, value |-> NoFrame]

merge_dataframes(prices, inventory, cot) ==
    LET inv == EnsureUnique(inventory)
        ct == EnsureUnique(cot)
        m1 == LeftMerge(prices, inv)
        m2 == LeftMerge(m1, ct)
    IN  IF "Price Score" \notin m2.columns THEN Raise("ValueError")
        ELSE IF ~(ScoreColumnSet \subseteq m2.columns) THEN Raise("KeyError")
        ELSE Ok([columns |-> m2.columns \cup {"Total_Score"},
                 rows    |-> [i \in 1..Len(m2.rows) |->
                                 SetTotalScore(FillNa(m2.rows[i]))]])

\* the mutant: a tolerance as wide as the spacing of the score levels
ToleranceOfSpacing == Rat(1, 2)

\* the tolerance of extract_rows_by_score: 1e-5
tolerance == Rat(1, 100000)

extract_rows_by_score(df, score) ==
    IF "Total_Score" \notin df.columns THEN Raise("ValueError")
    ELSE Ok([columns |-> df.columns,
             rows    |-> SelectSeq(df.rows, LAMBDA r :
                            RLe(RAbs(RSub(r["Total_Score"], score)), tolerance))])

----------------------------------------------------------------------------
(* The feeds of Main.py *)

\* newest first
WeekKeys == << <<2020, 1>>, <<2019, 52>> >>
KeyIndex == 1..Len(WeekKeys)

PriceScores == {Num(0), Rat(1, 2), Num(1)}
\* (Absolute Storage Score, Delta Inventory Score)
StoragePairs == {<<1, 1>>, <<-1, 1>>}
\* (Bullish_Bearish_Score, Delta_Score)
PositioningPairs == {<<1, 1>>, <<-1, 0>>}
\* a Total_Score column already in the price feed
StaleTotal == Num(9)

PriceColumns ==
    { {"Year", "Week_Number"},
      {"Year", "Week_Number", "Price Score"},
      {"Year", "Week_Number", "Price Score", "Total_Score"} }

\* the price feed has one row per week, newest first
PriceFeeds ==
    { [columns |-> cols,
       rows |-> [i \in DOMAIN ks |->
                   [c \in cols |->
                      IF c = "Year" THEN WeekKeys[ks[i]][1]
                      ELSE IF c = "Week_Number" THEN WeekKeys[ks[i]][2]
                      ELSE IF c = "Price Score" THEN ps[i]
                      ELSE StaleTotal]]] :
        <<cols, ks, ps>> \in
          { t \in PriceColumns \X SeqsUpTo(KeyIndex, MaxRows) \X SeqsUpTo(PriceScores, MaxRows) :
              /\ Len(t[2]) = Len(t[3])
              /\ \A i \in 1..(Len(t[2]) - 1) : t[2][i] < t[2][i + 1] } }

\* a factor feed is ordered newest first and may hold a week twice
FactorFeeds(colA, colB, pairs) ==
    { [columns |-> {"Year", "Week_Number", colA, colB},
       rows |-> [i \in DOMAIN ks |->
                   [c \in {"Year", "Week_Number", colA, colB} |->
                      IF c = "Year" THEN WeekKeys[ks[i]][1]
                      ELSE IF c = "Week_Number" THEN WeekKeys[ks[i]][2]
                      ELSE IF c = colA THEN Num(ps[i][1])
                      ELSE Num(ps[i][2])]]] :
        <<ks, ps>> \in
          { t \in SeqsUpTo(KeyIndex, MaxRows) \X SeqsUpTo(pairs, MaxRows) :
              /\ Len(t[1]) = Len(t[2])
              /\ \A i \in 1..(Len(t[1]) - 1) : t[1][i] <= t[1][i + 1] } }

InventoryFeeds == FactorFeeds("Absolute Storage Score", "Delta Inventory Score", StoragePairs)
\* the frame with one more column, of one value
WithColumn(df, col, v) ==
    [columns |-> df.columns \cup {col},
     rows |-> [i \in DOMAIN df.rows |-> df.rows[i] @@ [c \in {col} |-> v]]]

\* the positioning feed, as cot_redacted returns it or with a column named as
\* the score of the price feed
CotFeeds ==
    LET redacted == FactorFeeds("Bullish_Bearish_Score", "Delta_Score", PositioningPairs)
    IN  redacted \cup { WithColumn(f, "Price Score", Num(1)) : f \in redacted }

----------------------------------------------------------------------------
(* Main.py *)

IdleMain ==
    /\ price_df = NoFrame
    /\ inventory_df = NoFrame
    /\ cot_df = NoFrame
    /\ merged = NoFrame
    /\ merged_score_check = NoFrame

IdlePrice ==
    /\ price = NoFrame
    /\ processed_price = NoFrame

IdleSharpe ==
    /\ returns = <<>>
    /\ investment_period_weeks = 1
    /\ annual_risk_free_rate = NaN
    /\ sharpe_ratio = NaN

NoPivot == [index |-> {}, columns |-> {}, cell |-> <<>>]

IdleBacktest ==
    /\ merged_df = NoFrame
    /\ scores = <<>>
    /\ investment_periods = <<>>
    /\ backtest_years = {}
    /\ score_i = 1
    /\ period_i = 1
    /\ score_df = NoFrame
    /\ summary_data = <<>>
    /\ files = <<>>
    /\ calls = <<>>
    /\ summary_pivot = NoPivot

InitMain ==
    /\ pc = "loaded"
    /\ price_df \in PriceFeeds
    /\ inventory_df \in InventoryFeeds
    /\ cot_df \in CotFeeds
    /\ merged = NoFrame
    /\ merged_score_check = NoFrame
    /\ IdlePrice
    /\ IdleSharpe
    /\ IdleBacktest

\* merged = merge_dataframes(processed_price, processed_inventory, processed_cot)
MergeOk ==
    /\ pc = "loaded"
    /\ merge_dataframes(price_df, inventory_df, cot_df).raised = ""
    /\ merged' = merge_dataframes(price_df, inventory_df, cot_df).value
    /\ pc' = "merged"
    /\ UNCHANGED <<price_df, inventory_df, cot_df, merged_score_check, priceVars, sharpeVars, backtestVars>>

MergeRaises ==
    /\ pc = "loaded"
    /\ merge_dataframes(price_df, inventory_df, cot_df).raised # ""
    /\ pc' = merge_dataframes(price_df, inventory_df, cot_df).raised
    /\ UNCHANGED <<mainVars, priceVars, sharpeVars, backtestVars>>

\* merged_score_check = extract_rows_by_score(merged, 4)
ScoreCheck ==
    /\ pc = "merged"
    /\ merged_score_check' = extract_rows_by_score(merged, Num(4)).value
    /\ pc' = "checked"
    /\ UNCHANGED <<price_df, inventory_df, cot_df, merged, priceVars, sharpeVars, backtestVars>>

NextMain == MergeOk \/ MergeRaises \/ ScoreCheck

SpecMain == InitMain /\ [][NextMain]_vars

----------------------------------------------------------------------------
(* Claims about the merge *)

Merged == pc \in {"merged", "checked"}

Cell(df, i, c) == df.rows[i][c]

\* C1: merge_dataframes produces one merged record per price-feed record,
\* with the same (Year, Week_Number) keys in the same order, whatever weeks
\* the positioning and storage feeds miss or repeat; on a week that a factor
\* feed does not hold, both factor scores of that feed are 0.
C1_OneRecordPerPriceWeek ==
    Merged =>
        /\ Len(merged.rows) = Len(price_df.rows)
        /\ \A i \in DOMAIN merged.rows :
              /\ i \in DOMAIN price_df.rows
              /\ Key(merged.rows[i]) = Key(price_df.rows[i])
              /\ Key(merged.rows[i]) \notin KeysOf(cot_df) =>
                    /\ Cell(merged, i, "Bullish_Bearish_Score") = Num(0)
                    /\ Cell(merged, i, "Delta_Score") = Num(0)
              /\ Key(merged.rows[i]) \notin KeysOf(inventory_df) =>
                    /\ Cell(merged, i, "Absolute Storage Score") = Num(0)
                    /\ Cell(merged, i, "Delta Inventory Score") = Num(0)

\* a merge of two price weeks with a positioning feed that repeats one week
\* and misses the other, and a storage feed that repeats a week
C1_Witness ==
    /\ pc = "merged"
    /\ Len(price_df.rows) = 2
    /\ Duplicated(cot_df)
    /\ Duplicated(inventory_df)
    /\ \E i \in DOMAIN price_df.rows : Key(price_df.rows[i]) \notin KeysOf(cot_df)

----------------------------------------------------------------------------
(* Price_Data_Analysis.py *)

\* the holding periods of process_price_data
weeks == <<1, 2, 3, 4, 8, 12, 24>>
WeekSet == {weeks[i] : i \in DOMAIN weeks}

return_col_long(period) == ToString(period) \o "_Week_Long_Return"
return_col_short(period) == ToString(period) \o "_Week_Short_Return"

Reverse(s) == [i \in 1..Len(s) |-> s[Len(s) + 1 - i]]

Column(df, c) == [i \in 1..Len(df.rows) |-> df.rows[i][c]]

\* the mutant: the shift goes the other way, row t gets the value of row t + k
ShiftOlder(s, k) ==
    [t \in 1..Len(s) |-> IF t + k <= Len(s) THEN s[t + k] ELSE NaN]

\* Series.shift(k), k > 0: row t gets the value of row t - k, the first k NaN
Shift(s, k) ==
    [t \in 1..Len(s) |-> IF t - k >= 1 THEN s[t - k] ELSE NaN]

\* the mutant: the change against the row k positions after, s / s.shift(-k) - 1
PctChangeOlder(s, k) ==
    [t \in 1..Len(s) |-> RSub(RDiv(s[t], ShiftOlder(s, k)[t]), Num(1))]

\* Series.pct_change(periods=k): s / s.shift(k) - 1
PctChange(s, k) ==
    [t \in 1..Len(s) |-> RSub(RDiv(s[t], Shift(s, k)[t]), Num(1))]

\* np.select([Close <= 68, (Close > 68) & (Close < 70)], [1, 0.5], default=0)
PriceScore(close) ==
    IF RLe(close, Num(68)) THEN Num(1)
    ELSE IF RLt(Num(68), close) /\ RLt(close, Num(70)) THEN Rat(1, 2)
    ELSE Num(0)

\* Steps 6 to 9 of process_price_data, on the rows (Year, Week_Number, Close)
\* that Steps 1 to 5 leave; 'Exchange Date' is rebuilt from the key and the
\* sort on it is the sort on (Year, Week_Number), newest first
process_price_data(df) ==
    LET g == GroupByMean(df)
        sorted == Reverse(g.rows)
        close == [t \in 1..Len(sorted) |-> sorted[t]["Close"]]
        long(h) == [t \in 1..Len(sorted) |->
                      RMul(RDiv(RSub(Shift(close, h)[t], close[t]), close[t]), Num(100))]
        short(h) == [t \in 1..Len(sorted) |-> RMul(PctChange(close, h)[t], Num(100))]
        longs(t) == [c \in {return_col_long(h) : h \in WeekSet} |->
                       long(CHOOSE h \in WeekSet : return_col_long(h) = c)[t]]
        shorts(t) == [c \in {return_col_short(h) : h \in WeekSet} |->
                       short(CHOOSE h \in WeekSet : return_col_short(h) = c)[t]]
        score(t) == [c \in {"Price Score"} |-> PriceScore(close[t])]
    IN  [columns |-> g.columns \cup {"Price Score"}
                       \cup {return_col_long(h) : h \in WeekSet}
                       \cup {return_col_short(h) : h \in WeekSet},
         rows    |-> [t \in 1..Len(sorted) |->
                        sorted[t] @@ score(t) @@ longs(t) @@ shorts(t)]]

\* weekly closes of the raw file
CloseValues == {68, 69, 100, 101, 102}

\* the raw file after Steps 1 to 5: chronological, a week may hold several rows
RawPriceFiles ==
    { [columns |-> {"Year", "Week_Number", "Close"},
       rows |-> [i \in DOMAIN ws |->
                   [Year |-> 2020, Week_Number |-> ws[i], Close |-> Num(cs[i])]]] :
        <<ws, cs>> \in
          { t \in SeqsUpTo(1..MaxWeeks, MaxWeeks) \X SeqsUpTo(CloseValues, MaxWeeks) :
              /\ Len(t[1]) = Len(t[2])
              /\ \A i \in 1..(Len(t[1]) - 1) : t[1][i] <= t[1][i + 1] } }

InitPrice ==
    /\ pc = "raw"
    /\ price \in RawPriceFiles
    /\ processed_price = NoFrame
    /\ IdleMain
    /\ IdleSharpe
    /\ IdleBacktest

\* processed_price = process_price_data(price)
ProcessPrice ==
    /\ pc = "raw"
    /\ processed_price' = process_price_data(price)
    /\ pc' = "processed"
    /\ UNCHANGED <<price, mainVars, sharpeVars, backtestVars>>

NextPrice == ProcessPrice

SpecPrice == InitPrice /\ [][NextPrice]_vars

----------------------------------------------------------------------------
(* Claims about the return series *)

CloseAt(t) == processed_price.rows[t]["Close"]

\* return of buying at close b and selling at close s, in percent of b
PercentOf(s, b) == RDiv(RMul(RSub(s, b), Num(100)), b)

\* C4 as the specification states it: the long return of position t is taken
\* against the close h positions older, (close[t+h] - close[t]) / close[t] * 100,
\* undefined exactly when t + h is outside the series.
C4_LongAgainstOlderClose ==
    pc = "processed" =>
        \A h \in WeekSet : \A t \in DOMAIN processed_price.rows :
            LET v == processed_price.rows[t][return_col_long(h)]
            IN  IF t + h <= Len(processed_price.rows)
                THEN v = PercentOf(CloseAt(t + h), CloseAt(t))
                ELSE v.nan

\* C4, amended: with positions ordered newest to oldest, the long return of
\* position t is taken against the close h positions more recent,
\* (close[t-h] - close[t]) / close[t] * 100, undefined exactly when t - h is
\* before the first position.
C4_LongAgainstMoreRecentClose ==
    pc = "processed" =>
        \A h \in WeekSet : \A t \in DOMAIN processed_price.rows :
            LET v == processed_price.rows[t][return_col_long(h)]
            IN  IF t - h >= 1
                THEN v = PercentOf(CloseAt(t - h), CloseAt(t))
                ELSE v.nan

\* closes [100, 102, 101], newest first: the 1-week long return of the middle
\* week is (100 - 102) / 102 * 100
C4_Witness ==
    /\ pc = "processed"
    /\ Column(processed_price, "Close") = <<Num(100), Num(102), Num(101)>>
    /\ processed_price.rows[2][return_col_long(1)] = Rat(-200, 102)
    /\ processed_price.rows[1][return_col_long(1)].nan
    /\ ~processed_price.rows[3][return_col_long(2)].nan

\* C5: with positions ordered newest to oldest, the short return of position t
\* is (close[t] - close[t-h]) / close[t-h] * 100, t - h being h positions more
\* recent, undefined exactly when t - h is before the first position.
C5_ShortAgainstMoreRecentClose ==
    pc = "processed" =>
        \A h \in WeekSet : \A t \in DOMAIN processed_price.rows :
            LET v == processed_price.rows[t][return_col_short(h)]
            IN  IF t - h >= 1
                THEN v = PercentOf(CloseAt(t), CloseAt(t - h))
                ELSE v.nan

\* closes [100, 102, 101], newest first: the 1-week short return of the middle
\* week is 2.0
C5_Witness ==
    /\ pc = "processed"
    /\ Column(processed_price, "Close") = <<Num(100), Num(102), Num(101)>>
    /\ processed_price.rows[2][return_col_short(1)] = Num(2)
    /\ processed_price.rows[1][return_col_short(1)].nan

----------------------------------------------------------------------------
(* Backtesting.py: compute_sharpe_ratio, in real arithmetic *)

(* The value of a square root is kept exactly, as its sign and its square:  *)
(* [sgn, sq] stands for sgn * sqrt(sq).                                     *)
RootNaN == [nan |-> TRUE, sgn |-> 0, sq |-> Num(0)]
\* the rational x as a root
Root(x) == IF x.nan THEN RootNaN ELSE [nan |-> FALSE, sgn |-> Sgn(x), sq |-> RMul(x, x)]
\* np.sqrt(x); NaN for x < 0
Sqrt(x) ==
    IF x.nan \/ x.n < 0 THEN RootNaN ELSE [nan |-> FALSE, sgn |-> Sgn(x), sq |-> x]
RootMul(a, b) ==
    IF a.nan \/ b.nan THEN RootNaN
    ELSE [nan |-> FALSE, sgn |-> a.sgn * b.sgn, sq |-> RMul(a.sq, b.sq)]
\* a / b for b # 0
RootDiv(a, b) ==
    IF a.nan \/ b.nan THEN RootNaN
    ELSE [nan |-> FALSE, sgn |-> a.sgn * b.sgn, sq |-> RDiv(a.sq, b.sq)]
\* x == 0, False for NaN
RootIsZero(a) == ~a.nan /\ a.sgn = 0

RECURSIVE IPow(_, _)
IPow(b, k) == IF k = 0 THEN 1 ELSE b * IPow(b, k - 1)

\* the q-th root of n, a perfect q-th power
IntRoot(n, q) == IF n <= 1 \/ q = 1 THEN n ELSE CHOOSE k \in 1..n : IPow(k, q) = n

\* x ** (p / q) for x > 0, where the result is rational
RatPow(x, p, q) ==
    LET g == GCD(p, q)
    IN  Rat(IPow(IntRoot(x.n, q \div g), p \div g), IPow(IntRoot(x.d, q \div g), p \div g))

\* the mutant: the population variance, sum of squares over n
VarCellsPopulation(cells) ==
    LET n == Len(cells)
        avg == RDiv(SumCells(cells), Num(n))
        sqr == [i \in 1..n |-> RMul(RSub(avg, cells[i]), RSub(avg, cells[i]))]
    IN  IF n <= 1 THEN NaN ELSE RDiv(SumCells(sqr), Num(n))

\* Series.var(), ddof = 1: NaN for fewer than two values
VarCells(cells) ==
    LET n == Len(cells)
        avg == RDiv(SumCells(cells), Num(n))
        sqr == [i \in 1..n |-> RMul(RSub(avg, cells[i]), RSub(avg, cells[i]))]
    IN  IF n <= 1 THEN NaN ELSE RDiv(SumCells(sqr), Num(n - 1))

\* Series.std(): NaN entries are skipped
StdCells(cells) == Sqrt(VarCells(SelectSeq(cells, LAMBDA c : ~c.nan)))

\* the mutant: no rate is subtracted from the returns
PeriodRateZero(r, h) == Num(0)

\* the mutant: the rate of the period without compounding, r * h / 52
PeriodRateSimple(r, h) == RMul(r, Rat(h, 52))

\* (1 + annual_risk_free_rate) ** (investment_period_weeks / 52) - 1
PeriodRate(r, h) == RSub(RatPow(RAdd(Num(1), r), h, 52), Num(1))

compute_sharpe_ratio(rets, h, r) ==
    LET returns_decimal == [i \in 1..Len(rets) |-> RDiv(rets[i], Num(100))]
        risk_free_rate_period == PeriodRate(r, h)
        excess_returns == [i \in 1..Len(rets) |->
                             RSub(returns_decimal[i], risk_free_rate_period)]
        mean_excess == MeanCells(excess_returns)
        std_excess == StdCells(excess_returns)
    IN  IF RootIsZero(std_excess) THEN RootNaN
        ELSE RootMul(RootDiv(Root(mean_excess), std_excess), Sqrt(Rat(52, h)))

\* returns in percentage points
ReturnValues == {-3, 1, 2}

\* (annual rate, holding period) with a rational rate of the period
RatePeriods ==
    { <<Num(0), 1>>, <<Num(0), 4>>, <<Num(0), 13>>,
      <<Rat(3, 100), 52>>, <<Rat(21, 100), 26>> }

InitSharpe ==
    /\ pc = "call"
    /\ \E s \in SeqsUpTo(ReturnValues, MaxReturns) :
          returns = [i \in DOMAIN s |-> Num(s[i])]
    /\ \E rp \in RatePeriods :
          /\ annual_risk_free_rate = rp[1]
          /\ investment_period_weeks = rp[2]
    /\ sharpe_ratio = NaN
    /\ IdleMain
    /\ IdlePrice
    /\ IdleBacktest

ComputeSharpe ==
    /\ pc = "call"
    /\ sharpe_ratio' =
          compute_sharpe_ratio(returns, investment_period_weeks, annual_risk_free_rate)
    /\ pc' = "returned"
    /\ UNCHANGED <<returns, investment_period_weeks, annual_risk_free_rate,
                   mainVars, priceVars, backtestVars>>

NextSharpe == ComputeSharpe

SpecSharpe == InitSharpe /\ [][NextSharpe]_vars

----------------------------------------------------------------------------
(* Claims about compute_sharpe_ratio *)

\* the rate x of a period of h weeks: (1 + x) ^ (52 / h) = 1 + r
IsPeriodRate(x, r, h) ==
    \/ r = Num(0) /\ x = Num(0)
    \/ h = 52 /\ x = r
    \/ h = 26 /\ RMul(RAdd(Num(1), x), RAdd(Num(1), x)) = RAdd(Num(1), r)

CandidateRates == {Rat(k, 100) : k \in 0..100}

\* C6: for n >= 2 returns with a non-zero sample standard deviation,
\* compute_sharpe_ratio returns (mean_excess / std_excess) * sqrt(52 / h), with
\* excess = return/100 - ((1+r)^(h/52) - 1), mean_excess the sample mean and
\* std_excess the (n-1) sample standard deviation: the value has the sign of
\* mean_excess and its square is mean_excess^2 / var_excess * 52 / h.
C6_SharpeFormula ==
    pc = "returned" /\ Len(returns) >= 2 =>
        LET n == Len(returns)
            h == investment_period_weeks
            rf == CHOOSE x \in CandidateRates : IsPeriodRate(x, annual_risk_free_rate, h)
            excess == [i \in 1..n |-> RSub(Rat(returns[i].n, 100 * returns[i].d), rf)]
            mean == RDiv(SumCells(excess), Num(n))
            dev2 == [i \in 1..n |-> RMul(RSub(excess[i], mean), RSub(excess[i], mean))]
            var == RDiv(SumCells(dev2), Num(n - 1))
        IN  var # Num(0) =>
              /\ ~sharpe_ratio.nan
              /\ sharpe_ratio.sgn = Sgn(mean)
              /\ RMul(RMul(sharpe_ratio.sq, var), Num(h)) = RMul(RMul(mean, mean), Num(52))

\* three different returns over 26 weeks at a rate of 21%, whose mean is below
\* the rate of the period
C6_Witness ==
    /\ pc = "returned"
    /\ Len(returns) = 3
    /\ returns[1] # returns[2] /\ returns[2] # returns[3]
    /\ investment_period_weeks = 26
    /\ annual_risk_free_rate = Rat(21, 100)
    /\ ~sharpe_ratio.nan
    /\ sharpe_ratio.sgn = -1

----------------------------------------------------------------------------
(* Backtesting.py: compute_sharpe_ratio, in binary floating point           *)
(*                                                                         *)
(* Every operation gives the exact result rounded to the nearest number     *)
(* with Precision significant bits, ties to the even one, as IEEE 754 does  *)
(* for a double; the exponent is not bounded.                               *)

RECURSIVE Pow2(_)
Pow2(k) == IF k = 0 THEN 1 ELSE 2 * Pow2(k - 1)

\* <<n, d, e>> with b^(Precision-1) <= n/d < b^Precision and n0/d0 = n/d * b^e
RECURSIVE Scale(_, _, _, _)
Scale(n, d, e, b) ==
    IF n >= IPow(b, Precision) * d
    THEN Scale(n, b * d, e + 1, b)
    ELSE IF n < IPow(b, Precision - 1) * d
         THEN IF d % b = 0 THEN Scale(n, d \div b, e - 1, b) ELSE Scale(b * n, d, e - 1, b)
         ELSE <<n, d, e>>

\* m * 2^e
TimesPow2(m, e) == IF e >= 0 THEN Rat(m * Pow2(e), 1) ELSE Rat(m, Pow2(-e))

\* the rational x rounded to Precision bits
Fl(x) ==
    IF x.nan \/ x.n = 0 \/ x.d = 0 THEN x
    ELSE LET s == Scale(Abs(x.n), x.d, 0, 2)
             q == s[1] \div s[2]
             r == s[1] - q * s[2]
             m == IF 2 * r > s[2] \/ (2 * r = s[2] /\ q % 2 = 1) THEN q + 1 ELSE q
         IN  TimesPow2(Sgn(x) * m, s[3])

FAdd(x, y) == Fl(RAdd(x, y))
FSub(x, y) == Fl(RSub(x, y))
FMul(x, y) == Fl(RMul(x, y))
FDiv(x, y) == Fl(RDiv(x, y))

\* np.sqrt(x), correctly rounded
FSqrt(x) ==
    IF x.nan \/ x.n < 0 THEN NaN
    ELSE IF x.n = 0 THEN x
    ELSE LET s == Scale(x.n, x.d, 0, 4)
             f == CHOOSE k \in Pow2(Precision - 1)..(Pow2(Precision) - 1) :
                     k * k * s[2] <= s[1] /\ (k + 1) * (k + 1) * s[2] > s[1]
             half == (2 * f + 1) * (2 * f + 1) * s[2]
             m == IF 4 * s[1] > half \/ (4 * s[1] = half /\ f % 2 = 1) THEN f + 1 ELSE f
         IN  TimesPow2(m, s[3])

\* x ** y where the model's inputs need it: 1 ** y = 1 and x ** 1 = x
FPow(x, y) == IF x = Num(1) THEN Num(1) ELSE IF y = Num(1) THEN x ELSE NaN

\* the sum of a series, added up from the first value on
RECURSIVE FSumFrom(_, _)
FSumFrom(acc, cells) ==
    IF Len(cells) = 0 THEN acc ELSE FSumFrom(FAdd(acc, Head(cells)), Tail(cells))
FSum(cells) == FSumFrom(Num(0), cells)

\* Series.mean()
FMean(cells) == FDiv(FSum(cells), Num(Len(cells)))

\* Series.std(), ddof = 1: avg = sum / n, then sqrt(sum((avg - x) ** 2) / (n - 1))
FStd(cells) ==
    LET n == Len(cells)
        avg == FDiv(FSum(cells), Num(n))
        sqr == [i \in 1..n |-> FMul(FSub(avg, cells[i]), FSub(avg, cells[i]))]
    IN  IF n <= 1 THEN NaN ELSE FSqrt(FDiv(FSum(sqr), Num(n - 1)))

compute_sharpe_ratio_float(rets, h, r) ==
    LET returns_decimal == [i \in 1..Len(rets) |-> FDiv(rets[i], Num(100))]
        risk_free_rate_period ==
            FSub(FPow(FAdd(Num(1), r), FDiv(Num(h), Num(52))), Num(1))
        excess_returns == [i \in 1..Len(rets) |->
                             FSub(returns_decimal[i], risk_free_rate_period)]
        mean_excess == FMean(excess_returns)
        std_excess == FStd(excess_returns)
    IN  IF std_excess = Num(0) THEN NaN
        ELSE FMul(FDiv(mean_excess, std_excess), FSqrt(FDiv(Num(52), Num(h))))

\* returns in percentage points that the floating point of the model holds
FloatReturnValues == {2, 5, 10}

\* (annual rate, holding period) with 1 + rate = 1 or period / 52 = 1
FloatRatePeriods == { <<Num(0), 1>>, <<Num(0), 4>>, <<Rat(1, 16), 52>> }

InitSharpeFloat ==
    /\ pc = "call"
    /\ \E s \in SeqsUpTo(FloatReturnValues, MaxReturns) :
          returns = [i \in DOMAIN s |-> Num(s[i])]
    /\ \E rp \in FloatRatePeriods :
          /\ annual_risk_free_rate = rp[1]
          /\ investment_period_weeks = rp[2]
    /\ sharpe_ratio = NaN
    /\ IdleMain
    /\ IdlePrice
    /\ IdleBacktest

ComputeSharpeFloat ==
    /\ pc = "call"
    /\ sharpe_ratio' =
          compute_sharpe_ratio_float(returns, investment_period_weeks, annual_risk_free_rate)
    /\ pc' = "returned"
    /\ UNCHANGED <<returns, investment_period_weeks, annual_risk_free_rate,
                   mainVars, priceVars, backtestVars>>

NextSharpeFloat == ComputeSharpeFloat

SpecSharpeFloat == InitSharpeFloat /\ [][NextSharpeFloat]_vars

\* a series of one value, or of equal values
Degenerate(rets) == Len(rets) >= 1 /\ \A i \in DOMAIN rets : rets[i] = rets[1]

\* C7: compute_sharpe_ratio returns the undefined value for every series of
\* one element and for every series whose values are all equal, whatever the
\* horizon and the rate; it never returns a number there.
C7_UndefinedOnDegenerateSeries ==
    pc = "returned" /\ Degenerate(returns) => sharpe_ratio.nan

----------------------------------------------------------------------------
(* Backtesting.py: backtest_scores *)

\* the mutant: an undefined value is kept, as 0
DropNaAsZero(cells) == [i \in DOMAIN cells |-> IF cells[i].nan THEN Num(0) ELSE cells[i]]

\* Series.dropna()
DropNa(cells) == SelectSeq(cells, LAMBDA c : ~c.nan)

\* the mutant: the cohort is not restricted to the backtest years
YearFilterSkipped(df, years) == df

\* score_df[score_df['Year'].isin(backtest_years)]
YearFilter(df, years) ==
    [columns |-> df.columns, rows |-> SelectSeq(df.rows, LAMBDA r : r["Year"] \in years)]

Entry(score, period, rtype, sharpe) ==
    [Total_Score |-> score, Investment_Period_Weeks |-> period,
     Return_Type |-> rtype, Sharpe_Ratio |-> sharpe]

Call(score, period, rtype, rets) ==
    [score |-> score, period |-> period, rtype |-> rtype, returns |-> rets]

\* the Sharpe ratio of one return column of the cohort: NaN for a column
\* without a defined value, compute_sharpe_ratio of the defined values else
SharpeOf(df, col, period, rate) ==
    LET rets == DropNa(Column(df, col))
    IN  IF Len(rets) = 0 THEN RootNaN ELSE compute_sharpe_ratio(rets, period, rate)

\* the calls of compute_sharpe_ratio made for one return column
CallsOf(df, col, score, period, rtype) ==
    LET rets == DropNa(Column(df, col))
    IN  IF Len(rets) = 0 THEN <<>> ELSE << Call(score, period, rtype, rets) >>

\* the body of "for period in investment_periods": what it appends to
\* summary_data. A cohort without the long column ends the iteration.
PeriodEntries(df, score, period, rate) ==
    IF return_col_long(period) \notin df.columns THEN <<>>
    ELSE << Entry(score, period, "Long",
                  SharpeOf(df, return_col_long(period), period, rate)) >>
         \o (IF return_col_short(period) \in df.columns
             THEN << Entry(score, period, "Short",
                           SharpeOf(df, return_col_short(period), period, rate)) >>
             ELSE <<>>)

\* the body of "for period in investment_periods": its calls of
\* compute_sharpe_ratio
PeriodCalls(df, score, period) ==
    IF return_col_long(period) \notin df.columns THEN <<>>
    ELSE CallsOf(df, return_col_long(period), score, period, "Long")
         \o (IF return_col_short(period) \in df.columns
             THEN CallsOf(df, return_col_short(period), score, period, "Short")
             ELSE <<>>)

(* DataFrame.pivot_table(index=['Total_Score'],                              *)
(*     columns=['Investment_Period_Weeks', 'Return_Type'],                  *)
(*     values='Sharpe_Ratio'), with the defaults aggfunc='mean' and         *)
(* dropna=True, then the flattening of the column names.                    *)

\* the Sharpe values recorded for one (score, period, type)
GroupValues(data, score, period, rtype) ==
    LET sel == SelectSeq(data, LAMBDA x : /\ x.Total_Score = score
                                          /\ x.Investment_Period_Weeks = period
                                          /\ x.Return_Type = rtype)
    IN  [i \in DOMAIN sel |-> sel[i].Sharpe_Ratio]

\* the mean of a group, NaN skipped: NaN for a group without a number. The
\* entries of one (score, period, type) come from the same cohort and hold the
\* same value, which is their mean.
GroupMean(vals) ==
    LET nums == SelectSeq(vals, LAMBDA v : ~v.nan)
    IN  IF Len(nums) = 0 THEN RootNaN ELSE nums[1]

\* the groups left by dropna: those whose mean is a number
KeptGroups(data) ==
    { <<data[i].Total_Score, data[i].Investment_Period_Weeks, data[i].Return_Type>> :
        i \in { j \in DOMAIN data :
                  ~GroupMean(GroupValues(data, data[j].Total_Score,
                                         data[j].Investment_Period_Weeks,
                                         data[j].Return_Type)).nan } }

\* f"{period}_Week_{rtype}"
PivotColumn(period, rtype) == ToString(period) \o "_Week_" \o rtype

pivot_table(data) ==
    LET kept == KeptGroups(data)
        index == { k[1] : k \in kept }
        columns == { PivotColumn(k[2], k[3]) : k \in kept }
        value(s, c) ==
            LET ks == { k \in kept : k[1] = s /\ PivotColumn(k[2], k[3]) = c }
            IN  IF ks = {} THEN RootNaN
                ELSE LET k == CHOOSE k \in ks : TRUE
                     IN  GroupMean(GroupValues(data, k[1], k[2], k[3]))
    IN  [index |-> index, columns |-> columns,
         cell |-> [sc \in index \X columns |-> value(sc[1], sc[2])]]

(* The merged series and the configuration of a run *)

ReturnColumns ==
    {return_col_long(1), return_col_short(1), return_col_long(2), return_col_short(2)}

\* a week with the returns of one week only, as the second week of a file has
RecentWeek(year, total) ==
    [c \in {"Year", "Total_Score"} \cup ReturnColumns |->
        IF c = "Year" THEN year
        ELSE IF c = "Total_Score" THEN total
        ELSE IF c = return_col_long(1) THEN Num(1)
        ELSE IF c = return_col_short(1) THEN Num(-1)
        ELSE NaN]

\* a week with the returns of both horizons
OlderWeek(year, total) ==
    [c \in {"Year", "Total_Score"} \cup ReturnColumns |->
        IF c = "Year" THEN year
        ELSE IF c = "Total_Score" THEN total
        ELSE IF c = return_col_long(1) THEN Num(3)
        ELSE IF c = return_col_short(1) THEN Num(-3)
        ELSE IF c = return_col_long(2) THEN Num(2)
        ELSE Num(-2)]

\* a week without any return, as the newest week of a file is
NewestWeek(year, total) ==
    [c \in {"Year", "Total_Score"} \cup ReturnColumns |->
        IF c = "Year" THEN year
        ELSE IF c = "Total_Score" THEN total
        ELSE NaN]

\* a score within the tolerance of 2 and different from it
NearTwo == Rat(400001, 200000)

MergedRows ==
    { RecentWeek(2019, Num(2)), OlderWeek(2019, Num(2)), NewestWeek(2019, Num(2)),
      OlderWeek(2018, Num(2)), RecentWeek(2019, NearTwo), OlderWeek(2019, Rat(5, 2)) }

\* the columns of the merged series: all of them, or without the long or the
\* short return of one week or both, or without 'Total_Score', or without 'Year'
MergedColumns ==
    LET all == {"Year", "Total_Score"} \cup ReturnColumns
    IN  { all,
          all \ {return_col_long(1)},
          all \ {return_col_short(1)},
          all \ {return_col_long(1), return_col_short(1)},
          all \ {"Total_Score"},
          all \ {"Year"} }

MergedSeries ==
    { [columns |-> cols,
       rows |-> [i \in DOMAIN rs |-> [c \in cols |-> rs[i][c]]]] :
        cols \in MergedColumns, rs \in SeqsUpTo(MergedRows, MaxSeries) }

ScoreLists == { << Num(2) >>, << Rat(5, 2), Num(2) >>, << Num(3) >>, << Num(2), Num(2) >> }

PeriodLists == { << 1 >>, << 1, 2 >> }

InitBacktest ==
    /\ pc = "scores"
    /\ merged_df \in MergedSeries
    /\ scores \in ScoreLists
    /\ investment_periods \in PeriodLists
    /\ backtest_years = {2019}
    /\ annual_risk_free_rate = Num(0)
    /\ score_i = 1
    /\ period_i = 1
    /\ score_df = NoFrame
    /\ summary_data = <<>>
    /\ files = <<>>
    /\ calls = <<>>
    /\ summary_pivot = NoPivot
    /\ returns = <<>>
    /\ investment_period_weeks = 1
    /\ sharpe_ratio = NaN
    /\ IdleMain
    /\ IdlePrice

\* the cohort of a score: extract_rows_by_score, then the filter on the years
Cohort(df, score, years) ==
    IF extract_rows_by_score(df, score).raised # ""
    THEN extract_rows_by_score(df, score)
    ELSE IF "Year" \notin df.columns THEN Raise("KeyError")
    ELSE Ok(YearFilter(extract_rows_by_score(df, score).value, years))

\* after the last period of a score the loop goes to the next score
AfterPeriod(i) ==
    IF i > Len(investment_periods)
    THEN /\ pc' = "scores"
         /\ score_i' = score_i + 1
         /\ period_i' = 1
    ELSE /\ pc' = "periods"
         /\ score_i' = score_i
         /\ period_i' = i

\* the mutant: the cohort is filtered in place, merged_df becomes the cohort
NextScoreInPlace ==
    /\ pc = "scores"
    /\ score_i <= Len(scores)
    /\ Cohort(merged_df, scores[score_i], backtest_years).raised = ""
    /\ score_df' = Cohort(merged_df, scores[score_i], backtest_years).value
    /\ merged_df' = score_df'
    /\ files' = Append(files, [name |-> "score", score |-> scores[score_i],
                               table |-> score_df'])
    /\ AfterPeriod(1)
    /\ UNCHANGED <<scores, investment_periods, backtest_years, summary_data, calls,
                   summary_pivot, mainVars, priceVars, sharpeVars>>

\* "for score in scores": the cohort is extracted, filtered and written
NextScore ==
    /\ pc = "scores"
    /\ score_i <= Len(scores)
    /\ Cohort(merged_df, scores[score_i], backtest_years).raised = ""
    /\ score_df' = Cohort(merged_df, scores[score_i], backtest_years).value
    /\ files' = Append(files, [name |-> "score", score |-> scores[score_i],
                               table |-> score_df'])
    /\ AfterPeriod(1)
    /\ UNCHANGED <<configVars, summary_data, calls, summary_pivot,
                   mainVars, priceVars, sharpeVars>>

\* extract_rows_by_score raises ValueError, or the filter on 'Year' KeyError
NextScoreRaises ==
    /\ pc = "scores"
    /\ score_i <= Len(scores)
    /\ Cohort(merged_df, scores[score_i], backtest_years).raised # ""
    /\ pc' = Cohort(merged_df, scores[score_i], backtest_years).raised
    /\ UNCHANGED <<backtestVars, mainVars, priceVars, sharpeVars>>

\* "for period in investment_periods": one iteration
NextPeriod ==
    /\ pc = "periods"
    /\ period_i <= Len(investment_periods)
    /\ summary_data' = summary_data \o
          PeriodEntries(score_df, scores[score_i], investment_periods[period_i],
                        annual_risk_free_rate)
    /\ calls' = calls \o
          PeriodCalls(score_df, scores[score_i], investment_periods[period_i])
    /\ AfterPeriod(period_i + 1)
    /\ UNCHANGED <<configVars, score_df, files, summary_pivot,
                   mainVars, priceVars, sharpeVars>>

\* the pivot of the summary and its file
Summarize ==
    /\ pc = "scores"
    /\ score_i > Len(scores)
    /\ Len(summary_data) > 0
    /\ summary_pivot' = pivot_table(summary_data)
    /\ files' = Append(files, [name |-> "sharpe_ratio_summary.csv", score |-> NaN,
                               table |-> summary_pivot'])
    /\ pc' = "done"
    /\ UNCHANGED <<configVars, score_i, period_i, score_df, summary_data, calls,
                   mainVars, priceVars, sharpeVars>>

\* a summary without an entry has no column 'Sharpe_Ratio': pivot_table raises
SummarizeRaises ==
    /\ pc = "scores"
    /\ score_i > Len(scores)
    /\ Len(summary_data) = 0
    /\ pc' = "KeyError"
    /\ UNCHANGED <<backtestVars, mainVars, priceVars, sharpeVars>>

NextBacktest == NextScore \/ NextScoreRaises \/ NextPeriod \/ Summarize \/ SummarizeRaises

SpecBacktest == InitBacktest /\ [][NextBacktest]_vars

----------------------------------------------------------------------------
(* Claims about backtest_scores *)

\* both loops have run to their end
LoopsDone == score_i > Len(scores)

\* the record belongs to the cohort of the score
Matches(r, score) ==
    /\ RLe(RSub(r["Total_Score"], score), tolerance)
    /\ RLe(RSub(score, r["Total_Score"]), tolerance)
    /\ r["Year"] \in backtest_years

\* the k-th of a set of positions, in increasing order
KthOf(S, k) == CHOOSE i \in S : Cardinality({j \in S : j <= i}) = k

\* the table is the subsequence of the merged series at the matching positions
IsCohortOf(table, score) ==
    LET S == { i \in DOMAIN merged_df.rows : Matches(merged_df.rows[i], score) }
    IN  /\ table.columns = merged_df.columns
        /\ Len(table.rows) = Cardinality(S)
        /\ \A k \in DOMAIN table.rows : table.rows[k] = merged_df.rows[KthOf(S, k)]

\* C3: the cohort built for a configured score is exactly the subsequence of
\* the merged records with |Total_Score - s| <= tolerance and Year in
\* backtest_years: nothing matching left out, nothing else included, the
\* merged order kept, every field unchanged.
C3_CohortIsMatchingSubsequence ==
    /\ pc = "periods" => IsCohortOf(score_df, scores[score_i])
    /\ \A k \in DOMAIN files :
          files[k].name = "score" => IsCohortOf(files[k].table, files[k].score)

\* a cohort of score 2 holding the record of score 2.000005 of 2019 and
\* neither the record of score 2 of 2018 nor the record of score 2.5
C3_Witness ==
    /\ pc = "periods"
    /\ scores[score_i] = Num(2)
    /\ Len(merged_df.rows) = 3
    /\ merged_df.rows[1]["Total_Score"] = Num(2) /\ merged_df.rows[1]["Year"] = 2018
    /\ merged_df.rows[2]["Total_Score"] = NearTwo
    /\ merged_df.rows[3]["Total_Score"] = Rat(5, 2)
    /\ score_df.rows = << merged_df.rows[2] >>

HasEntry(score, period, rtype) ==
    \E k \in DOMAIN summary_data :
        /\ summary_data[k].Total_Score = score
        /\ summary_data[k].Investment_Period_Weeks = period
        /\ summary_data[k].Return_Type = rtype

\* the Sharpe value recorded for (score, period, type), NaN without an entry
Recorded(score, period, rtype) ==
    IF HasEntry(score, period, rtype)
    THEN GroupValues(summary_data, score, period, rtype)[1]
    ELSE RootNaN

PeriodSet == { investment_periods[i] : i \in DOMAIN investment_periods }
ScoreSet == { scores[i] : i \in DOMAIN scores }
ReturnTypes == {"Long", "Short"}

\* C8: the summary table has one row for every score with a summary entry and
\* one column '{h}_Week_{Long|Short}' for every (horizon, direction) with an
\* entry, also when all their Sharpe values are undefined; a cell holds the
\* recorded value and is undefined when that value is undefined or missing.
C8_PivotKeepsUndefinedRowsAndColumns ==
    pc = "done" =>
        /\ summary_pivot.index =
              { s \in ScoreSet : \E h \in PeriodSet, d \in ReturnTypes : HasEntry(s, h, d) }
        /\ summary_pivot.columns =
              { PivotColumn(h, d) : <<h, d>> \in
                  { hd \in PeriodSet \X ReturnTypes :
                      \E s \in ScoreSet : HasEntry(s, hd[1], hd[2]) } }
        /\ \A s \in ScoreSet, h \in PeriodSet, d \in ReturnTypes :
              <<s, PivotColumn(h, d)>> \in DOMAIN summary_pivot.cell =>
                  summary_pivot.cell[<<s, PivotColumn(h, d)>>] = Recorded(s, h, d)

ReturnColumnOf(period, rtype) ==
    IF rtype = "Long" THEN return_col_long(period) ELSE return_col_short(period)

\* C9: with a return field absent from the data, exactly the combinations of
\* that (horizon, direction) are skipped: every combination whose field is
\* present gets its summary entry, with the long field absent and the short
\* one present as well as the other way round, and the run goes on to its end.
C9_SkipsExactlyTheMissingCombination ==
    LoopsDone =>
        \A s \in ScoreSet, h \in PeriodSet, d \in ReturnTypes :
            HasEntry(s, h, d) <=> ReturnColumnOf(h, d) \in merged_df.columns

\* the cohort written for the score
CohortFile(score) == files[CHOOSE k \in DOMAIN files :
                             files[k].name = "score" /\ files[k].score = score].table

HasCall(score, period, rtype) ==
    \E k \in DOMAIN calls :
        calls[k].score = score /\ calls[k].period = period /\ calls[k].rtype = rtype

\* C10: for every (horizon, direction) whose return series has no defined
\* value in the cohort of a score, an empty cohort included, a summary entry
\* with an undefined Sharpe value is recorded, without a call of
\* compute_sharpe_ratio and without an error.
C10_UndefinedEntryForEmptySeries ==
    LoopsDone =>
        \A s \in ScoreSet, h \in PeriodSet, d \in ReturnTypes :
            ( /\ ReturnColumnOf(h, d) \in merged_df.columns
              /\ DropNa(Column(CohortFile(s), ReturnColumnOf(h, d))) = <<>> )
            => /\ HasEntry(s, h, d)
               /\ Recorded(s, h, d).nan
               /\ ~HasCall(s, h, d)

\* a step of the loops or of the summary is left to take
Running == pc \in {"scores", "periods"}

\* C11: for every configuration and every merged series with the fields
\* Total_Score and Year, a run of backtest_scores ends with the summary table
\* produced, whatever the sparsity of the data: empty cohorts, series without
\* variance, missing return fields, no return field at all. The run never
\* stops in another way: each of its states is followed by a step or is the
\* end with the table.
C11_RunEndsWithSummaryTable ==
    ("Total_Score" \in merged_df.columns /\ "Year" \in merged_df.columns)
        => (Running \/ pc = "done")

\* merge_dataframes fails, without a merged table, when the price feed has no
\* 'Price Score'
MergeFailsWithoutPriceScore ==
    (pc # "loaded" /\ price_df # NoFrame /\ "Price Score" \notin price_df.columns)
        => /\ pc = "ValueError"
           /\ merged = NoFrame
           /\ merge_dataframes(price_df, inventory_df, cot_df).raised = "ValueError"

\* extract_rows_by_score fails, without a cohort, when the series has no
\* 'Total_Score'; backtest_scores ends there with nothing recorded or written
ExtractFailsWithoutTotalScore ==
    (merged_df # NoFrame /\ "Total_Score" \notin merged_df.columns)
        => /\ \A i \in DOMAIN scores :
                 extract_rows_by_score(merged_df, scores[i]) = Raise("ValueError")
           /\ pc \in {"scores", "ValueError"}
           /\ score_i = 1
           /\ summary_data = <<>> /\ files = <<>> /\ summary_pivot = NoPivot

\* C12: a structurally missing field aborts its stage with an error and no
\* output: merge_dataframes fails when the price feed has no 'Price Score',
\* whatever the other feeds contain, and extract_rows_by_score fails when the
\* series has no 'Total_Score', in backtest_scores before any summary entry
\* is recorded.
C12_MissingFieldAborts ==
    MergeFailsWithoutPriceScore /\ ExtractFailsWithoutTotalScore

\* s is a prefix of t
IsPrefix(s, t) == Len(s) <= Len(t) /\ \A i \in DOMAIN s : s[i] = t[i]

\* C13: the merged series is read-only after construction: every call of
\* extract_rows_by_score and every step of backtest_scores leaves its records,
\* their order and their fields as they were, a cohort being a copy; of the
\* state that outlives an iteration only the summary list changes, and it
\* only grows.
C13_MergedSeriesReadOnly ==
    [][ /\ merged_df' = merged_df
        /\ (pc = "merged" => merged' = merged)
        /\ <<scores, investment_periods, backtest_years>>'
              = <<scores, investment_periods, backtest_years>>
        /\ IsPrefix(summary_data, summary_data') ]_vars

\* the end of a run that built a cohort smaller than the merged series and
\* recorded entries
C13_Witness ==
    /\ pc = "done"
    /\ Len(merged_df.rows) = 3
    /\ Len(score_df.rows) = 2
    /\ Len(summary_data) = 4
    /\ Len(files) = 2

----------------------------------------------------------------------------
(* Backtesting.py: extract_rows_by_score on the score levels *)

\* the levels a Total_Score can take: the multiples of 0.5 from -4 to 5
ScoreLevels == { Rat(k, 2) : k \in -8..10 }

LevelRows == { [c \in {"Total_Score"} |-> v] : v \in ScoreLevels }

\* a series of records on the levels, and two neighbouring levels to look for
InitExtract ==
    /\ pc = "extract"
    /\ \E rs \in SeqsUpTo(LevelRows, MaxExtractRows) :
          merged_df = [columns |-> {"Total_Score"}, rows |-> rs]
    /\ \E s \in ScoreLevels : scores = << s, RAdd(s, Rat(1, 2)) >>
    /\ investment_periods = <<>>
    /\ backtest_years = {}
    /\ score_i = 1
    /\ period_i = 1
    /\ score_df = NoFrame
    /\ summary_data = <<>>
    /\ files = <<>>
    /\ calls = <<>>
    /\ summary_pivot = NoPivot
    /\ IdleMain
    /\ IdlePrice
    /\ IdleSharpe

\* score_df = extract_rows_by_score(merged_df, score), for the next score
ExtractCohort ==
    /\ pc = "extract"
    /\ score_i <= Len(scores)
    /\ score_df' = extract_rows_by_score(merged_df, scores[score_i]).value
    /\ files' = Append(files, [name |-> "score", score |-> scores[score_i],
                               table |-> score_df'])
    /\ score_i' = score_i + 1
    /\ UNCHANGED <<pc, configVars, period_i, summary_data, calls, summary_pivot,
                   mainVars, priceVars, sharpeVars>>

NextExtract == ExtractCohort

SpecExtract == InitExtract /\ [][NextExtract]_vars

\* a multiple of 0.5
OnLevel(x) == ~x.nan /\ x.d \in {1, 2}

InTable(r, table) == \E k \in DOMAIN table.rows : table.rows[k] = r

\* C14: with the tolerance 1e-5 the match is exact on the score levels: a
\* record whose Total_Score is a multiple of 0.5 is selected for a queried
\* multiple of 0.5 if and only if the two are equal, so the cohorts of two
\* distinct scores share no record.
C14_ExactMatchOnLevels ==
    /\ \A k \in DOMAIN files : \A i \in DOMAIN merged_df.rows :
          (OnLevel(merged_df.rows[i]["Total_Score"]) /\ OnLevel(files[k].score))
             => (InTable(merged_df.rows[i], files[k].table)
                   <=> merged_df.rows[i]["Total_Score"] = files[k].score)
    /\ \A k1, k2 \in DOMAIN files :
          files[k1].score # files[k2].score
             => \A i \in DOMAIN merged_df.rows :
                   ~(/\ InTable(merged_df.rows[i], files[k1].table)
                     /\ InTable(merged_df.rows[i], files[k2].table))

\* records of the levels 2.5 and 2, looked for at 2 and at 2.5: each cohort
\* holds the one record of its level
C14_Witness ==
    /\ pc = "extract"
    /\ Len(files) = 2
    /\ scores = << Num(2), Rat(5, 2) >>
    /\ Column(merged_df, "Total_Score") = << Rat(5, 2), Num(2) >>
    /\ Column(files[1].table, "Total_Score") = << Num(2) >>
    /\ Column(files[2].table, "Total_Score") = << Rat(5, 2) >>

----------------------------------------------------------------------------
(* Claims about the returns handed to compute_sharpe_ratio *)

\* the cohort without the records whose return in the column is undefined
WithoutUndefined(table, col) ==
    [columns |-> table.columns, rows |-> SelectSeq(table.rows, LAMBDA r : ~r[col].nan)]

\* the Sharpe value of the column of a cohort all of whose returns are defined
SharpeOfDefined(table, col, period) ==
    IF Len(table.rows) = 0 THEN RootNaN
    ELSE compute_sharpe_ratio(Column(table, col), period, annual_risk_free_rate)

\* C15: an undefined return is never treated as 0: the series handed to
\* compute_sharpe_ratio for a (score, horizon, direction) is made of exactly
\* the defined returns of the records of the cohort, and the Sharpe value
\* recorded is the one of the cohort without the records whose return is
\* undefined.
C15_UndefinedReturnsLeftOut ==
    /\ \A k \in DOMAIN calls :
          LET col == ReturnColumnOf(calls[k].period, calls[k].rtype)
          IN  /\ \A i \in DOMAIN calls[k].returns : ~calls[k].returns[i].nan
              /\ calls[k].returns =
                    Column(WithoutUndefined(CohortFile(calls[k].score), col), col)
    /\ \A k \in DOMAIN summary_data :
          LET e == summary_data[k]
              col == ReturnColumnOf(e.Investment_Period_Weeks, e.Return_Type)
          IN  e.Sharpe_Ratio =
                 SharpeOfDefined(WithoutUndefined(CohortFile(e.Total_Score), col), col,
                                 e.Investment_Period_Weeks)

\* a cohort of three records, the newest without a return: the series of the
\* 1-week long returns handed over is [1, 3] and its Sharpe value is recorded
C15_Witness ==
    /\ pc = "done"
    /\ Len(score_df.rows) = 3
    /\ Column(score_df, return_col_long(1)) = << NaN, Num(1), Num(3) >>
    /\ \E k \in DOMAIN calls :
          /\ calls[k].period = 1 /\ calls[k].rtype = "Long"
          /\ calls[k].returns = << Num(1), Num(3) >>
    /\ ~Recorded(scores[1], 1, "Long").nan

----------------------------------------------------------------------------
(* Claims about the files written by backtest_scores *)

\* the number of scores whose iteration has begun
ScoresBegun == IF pc = "periods" THEN score_i ELSE score_i - 1

SummaryFiles == { k \in DOMAIN files : files[k].name = "sharpe_ratio_summary.csv" }

\* the cohorts are written once each, in the order of the scores, each before
\* the entries of its score; the summary is written last, after the loops
WrittenInOrder ==
    /\ \A k \in 1..ScoresBegun :
          /\ k \in DOMAIN files
          /\ files[k].name = "score"
          /\ files[k].score = scores[k]
    /\ \A k \in DOMAIN files : k > ScoresBegun => k \in SummaryFiles
    /\ \A k \in DOMAIN summary_data :
          \E j \in 1..ScoresBegun : scores[j] = summary_data[k].Total_Score
    /\ Cardinality(SummaryFiles) <= 1
    /\ \A k \in SummaryFiles :
          /\ k = Len(files)
          /\ LoopsDone
          /\ files[k].table = pivot_table(summary_data)

\* C16: in a run of backtest_scores the cohort table of each configured score
\* is written exactly once, in the order of the scores and before any summary
\* entry of that score is recorded, an empty cohort too; the summary table is
\* written exactly once, as the last step, after the entries of every
\* combination.
C16_FilesWrittenOnceInOrder ==
    ("Total_Score" \in merged_df.columns /\ "Year" \in merged_df.columns)
        => /\ WrittenInOrder
           /\ ~Running => Cardinality(SummaryFiles) = 1

----------------------------------------------------------------------------
(* Claims about the levels of Total_Score *)

InRange(x) == ~x.nan /\ RLe(Num(-4), x) /\ RLe(x, Num(5))

\* scores looked for: on a level, beyond the range, between two levels, and
\* off the levels within 1e-5 of one
ProbeScores == { Num(2), Num(6), Rat(-9, 2), Rat(9, 4), NearTwo }

\* the score is within 1e-5 of a multiple of 0.5 from -4 to 5
NearALevel(s) ==
    \E v \in ScoreLevels :
        RLe(RSub(s, v), Rat(1, 100000)) /\ RLe(RSub(v, s), Rat(1, 100000))

CohortOfMerged(s) == extract_rows_by_score(merged, s).value.rows

----------------------------------------------------------------------------
(* Claims about the two returns of a week *)

\* 1 + x / 100
Growth(x) == RAdd(Num(1), RDiv(x, Num(100)))

\* C18: for every horizon h and every position t of a price series of
\* positive closes, newest first, the long and the short return are defined
\* on the same positions, those with h more recent positions before them, are
\* computed from the same two closes, and have opposite signs or are both
\* zero: (1 + long/100) * (1 + short/100) = 1.
C18_LongAndShortAreReciprocal ==
    pc = "processed" =>
        \A h \in WeekSet : \A t \in DOMAIN processed_price.rows :
            LET long == processed_price.rows[t][return_col_long(h)]
                short == processed_price.rows[t][return_col_short(h)]
            IN  /\ long.nan <=> short.nan
                /\ long.nan <=> t - h < 1
                /\ ~long.nan =>
                      /\ Growth(long) = RDiv(CloseAt(t - h), CloseAt(t))
                      /\ Growth(short) = RDiv(CloseAt(t), CloseAt(t - h))
                      /\ RMul(Growth(long), Growth(short)) = Num(1)
                      /\ Sgn(long) = 0 - Sgn(short)

\* closes [100, 102, 102], newest first: a week with a falling long and a
\* rising short return of one week, and an older week with both returns zero
C18_Witness ==
    /\ pc = "processed"
    /\ Column(processed_price, "Close") = <<Num(100), Num(102), Num(102)>>
    /\ Sgn(processed_price.rows[2][return_col_long(1)]) = -1
    /\ Sgn(processed_price.rows[2][return_col_short(1)]) = 1
    /\ processed_price.rows[3][return_col_long(1)] = Num(0)
    /\ processed_price.rows[3][return_col_short(1)] = Num(0)
    /\ processed_price.rows[3][return_col_short(3)].nan

----------------------------------------------------------------------------
(* Claims about the sign of the Sharpe ratio *)

\* the mean of the returns, as a fraction, less the rate of the period
MeanReturnOverRate ==
    RSub(RDiv(RDiv(SumCells(returns), Num(Len(returns))), Num(100)),
         CHOOSE x \in CandidateRates :
             IsPeriodRate(x, annual_risk_free_rate, investment_period_weeks))

\* C19: a defined value of compute_sharpe_ratio has the sign of the mean excess
\* return, the mean of return/100 less the rate of the period, not the sign of
\* the mean return: a positive mean return below the rate of the period gives a
\* negative value, and the value is 0 exactly when the two are equal.
C19_SignOfMeanExcess ==
    (pc = "returned" /\ ~sharpe_ratio.nan) =>
        /\ sharpe_ratio.sgn = Sgn(MeanReturnOverRate)
        /\ RootIsZero(sharpe_ratio) <=> MeanReturnOverRate = Num(0)

\* returns of 1% and 2% over 52 weeks at a rate of 3%: the mean return is
\* positive and the Sharpe ratio negative
C19_Witness ==
    /\ pc = "returned"
    /\ returns = << Num(1), Num(2) >>
    /\ investment_period_weeks = 52
    /\ annual_risk_free_rate = Rat(3, 100)
    /\ ~sharpe_ratio.nan
    /\ sharpe_ratio.sgn = -1

============================================================================
